---- MODULE Spec2Model ----
(***************************************************************************)
(* LogisTech warehouse controller (logistech/controller.py,                *)
(* logistech/algorithms.py, logistech/models.py, db/setup.py).             *)
(*                                                                         *)
(* Sizes, capacities and occupancies are Python floats in the source; they *)
(* are modelled as naturals, so float rounding is outside this model.      *)
(***************************************************************************)
EXTENDS Integers, Sequences, FiniteSets, TLC

(* ------------------------------ bounds -------------------------------- *)
MaxCap == 3        \* bin capacities range over 1..MaxCap
MaxSize == 3       \* package sizes range over 1..MaxSize
SelBins == 3       \* selector harness: at most this many storage_bins rows
MaxCand == 4       \* optimizer harness: at most this many candidates
MaxCeil == 6       \* optimizer harness: ceilings range over 1..MaxCeil
MaxIngest == 3     \* at most this many ingest_package calls
NumIds == 2        \* tracking ids range over 1..NumIds
NumZips == 1       \* destinations range over 1..NumZips
MainBins == 2      \* controller runs: rows of storage_bins
MainCap == 2       \* controller runs: bin and truck capacities in 1..MainCap
MainSize == 2      \* controller runs: package sizes in 1..MainSize
MaxAuditFail == 1  \* at most this many failing audit inserts in a run
MaxLedger == 3     \* prepare_shipment stops pushing beyond this ledger length
NumCallers == 2    \* concurrent runs: threads inside process_next_package

NULL == 0          \* SQL NULL / Python None for ids and indices

VARIABLES
    bin_inventory,   \* LogiMaster.bin_inventory: sorted list of StorageBin
    conveyor_queue,  \* LogiMaster.conveyor_queue: deque of Package
    loading_stack,   \* LogiMaster.loading_stack: list of tracking ids
    db_bins,         \* table storage_bins, rows in table order
    db_packages,     \* table packages, rows in insertion order
    db_trucks,       \* table delivery_trucks, rows in table order
    shipment_logs,   \* table shipment_logs: number of rows (never read back)
    audit_failures,  \* history: number of audit inserts that raised
    ingested,        \* history: number of ingest_package calls so far
    handed,          \* history: packages in order of first hand-off to the selector
    retry,           \* history: package requeued after a persistence failure
    committed,       \* history: tracking ids whose truck relocation committed
    last,            \* history: the operation that produced this state
    probe,           \* harness: input and result of a pure-function call
    callers          \* concurrent runs: each thread's position and locals

vars == <<bin_inventory, conveyor_queue, loading_stack, db_bins, db_packages,
          db_trucks, shipment_logs, audit_failures, ingested, handed, retry, committed, last,
          probe, callers>>

(* ----------------------------- helpers -------------------------------- *)
SeqsUpTo(S, n) == UNION {[1..k -> S] : k \in 0..n}

RECURSIVE SumSizes(_)
SumSizes(load) ==
    IF load = <<>> THEN 0 ELSE Head(load).size + SumSizes(Tail(load))

Max2(a, b) == IF a >= b THEN a ELSE b

(* --------------------------- models.py -------------------------------- *)
\* A comparison that also holds between equal capacities.
BinLe(a, b) == a.capacity <= b.capacity

\* StorageBin.__lt__
BinLt(a, b) == a.capacity < b.capacity

\* Remaining capacity computed without the occupancy.
remaining_of_empty(b) == b.capacity

\* StorageBin.get_remaining_capacity
get_remaining_capacity(b) == b.capacity - b.occupancy

\* An occupy that takes the amount out of the capacity.
occupy_by_shrinking(b, amount) ==
    IF b.capacity - b.occupancy >= amount
    THEN [b EXCEPT !.capacity = b.capacity - amount]
    ELSE b

\* StorageBin.occupy_space: the bin after the call (the bool is unused)
occupy_space(b, amount) ==
    IF get_remaining_capacity(b) >= amount
    THEN [b EXCEPT !.occupancy = b.occupancy + amount]
    ELSE b

\* StorageBin.free_space
free_space(b, amount) ==
    [b EXCEPT !.occupancy = Max2(0, b.occupancy - amount)]

(* --------------- controller.py: _load_and_sort_bins -------------------- *)
\* list.sort() is stable and compares with __lt__ only: insert each element
\* after the last element that is not greater than it.
RECURSIVE InsertStable(_, _)
InsertStable(sorted, b) ==
    IF sorted = <<>> THEN <<b>>
    ELSE IF BinLt(b, Head(sorted)) THEN <<b>> \o sorted
    ELSE <<Head(sorted)>> \o InsertStable(Tail(sorted), b)

RECURSIVE SortBins(_)
SortBins(bins) ==
    IF bins = <<>> THEN <<>>
    ELSE InsertStable(SortBins(SubSeq(bins, 1, Len(bins) - 1)), bins[Len(bins)])

load_and_sort_bins(rows) ==
    SortBins([i \in 1..Len(rows) |->
                [bin_id |-> rows[i].bin_id,
                 capacity |-> rows[i].max_capacity,
                 occupancy |-> rows[i].current_occupancy]])

(* ---------------- controller.py: find_best_fit_bin --------------------- *)
\* The while loop, on 1-based indices; best = NULL is best_fit_bin = None.
RECURSIVE BinarySearch(_, _, _, _, _)
BinarySearch(bins, package_size, low, high, best) ==
    IF low > high THEN best
    ELSE LET mid == (low + high) \div 2 IN
         IF bins[mid].capacity >= package_size
         THEN BinarySearch(bins, package_size, low, mid - 1, mid)
         ELSE BinarySearch(bins, package_size, mid + 1, high, best)

\* Best-fit by linear scan: the smallest bin with enough free space.
find_best_fit_scan(bins, package_size) ==
    LET ok == {i \in 1..Len(bins) :
                  /\ bins[i].capacity >= package_size
                  /\ get_remaining_capacity(bins[i]) >= package_size}
    IN IF ok = {} THEN NULL ELSE CHOOSE i \in ok : \A j \in ok : i <= j

\* Index into bins of the returned bin, NULL for None.
find_best_fit_bin(bins, package_size) ==
    LET best == BinarySearch(bins, package_size, 1, Len(bins), NULL) IN
    IF best # NULL /\ get_remaining_capacity(bins[best]) >= package_size
    THEN best
    ELSE NULL

(* --------------- algorithms.py: find_optimal_shipment ------------------ *)
\* sorted(packages, key=size, reverse=True): stable, descending by size.
RECURSIVE InsertDesc(_, _)
InsertDesc(sorted, p) ==
    IF sorted = <<>> THEN <<p>>
    ELSE IF p.size > Head(sorted).size THEN <<p>> \o sorted
    ELSE <<Head(sorted)>> \o InsertDesc(Tail(sorted), p)

RECURSIVE SortDesc(_)
SortDesc(packages) ==
    IF packages = <<>> THEN <<>>
    ELSE InsertDesc(SortDesc(SubSeq(packages, 1, Len(packages) - 1)),
                    packages[Len(packages)])

\* A pruning test that also cuts off exact fits.
FitsLoose(current_size, size, target_capacity) ==
    current_size + size < target_capacity

\* Pruning test of the recursive step.
Fits(current_size, size, target_capacity) ==
    current_size + size <= target_capacity

\* Search state: the nonlocals best_load/best_size, plus the list of
\* backtrack calls made so far (each with its current_load and current_size).
RECURSIVE backtrack(_, _, _, _, _, _)
RECURSIVE backtrack_loop(_, _, _, _, _, _, _)

backtrack(sorted_packages, target_capacity, index, current_load, current_size, st) ==
    LET entered == [st EXCEPT !.calls =
                      Append(@, [load |-> current_load, size |-> current_size])]
    IN IF current_size = target_capacity
       THEN [entered EXCEPT !.best_load = current_load,
                            !.best_size = current_size]
       ELSE LET better ==
                  IF current_size > entered.best_size
                  THEN [entered EXCEPT !.best_load = current_load,
                                       !.best_size = current_size]
                  ELSE entered
            IN backtrack_loop(sorted_packages, target_capacity, index, index,
                              current_load, current_size, better)

backtrack_loop(sorted_packages, target_capacity, index, i, current_load, current_size, st) ==
    IF i > Len(sorted_packages) THEN st
    ELSE LET package == sorted_packages[i] IN
         IF Fits(current_size, package.size, target_capacity)
         THEN backtrack_loop(sorted_packages, target_capacity, index, i + 1,
                  current_load, current_size,
                  backtrack(sorted_packages, target_capacity, i + 1,
                            Append(current_load, package),
                            current_size + package.size, st))
         ELSE backtrack_loop(sorted_packages, target_capacity, index, i + 1,
                  current_load, current_size, st)

\* The whole search: final best_load, best_size and the call list.
optimal_search(packages, target_capacity) ==
    backtrack(SortDesc(packages), target_capacity, 1, <<>>, 0,
              [best_load |-> <<>>, best_size |-> 0, calls |-> <<>>])

find_optimal_shipment(packages, target_capacity) ==
    optimal_search(packages, target_capacity).best_load

(* ------------------- db/setup.py: table contents ----------------------- *)
\* storage_bins rows: bin_id is the row position, occupancy within capacity.
BinRows(n, maxcap) ==
    {rows \in [1..n -> [bin_id : 1..n, max_capacity : 1..maxcap,
                        current_occupancy : 0..maxcap]] :
        \A i \in 1..n : /\ rows[i].bin_id = i
                        /\ rows[i].current_occupancy <= rows[i].max_capacity}

\* storage_bins rows as seeded: current_occupancy defaults to 0.
SeededBinRows(n, maxcap) ==
    {rows \in BinRows(n, maxcap) : \A i \in 1..n : rows[i].current_occupancy = 0}

\* delivery_trucks rows: current_load defaults to 0, status to READY_TO_LOAD.
TruckRows(maxcap) ==
    {<<[truck_id |-> 1, max_capacity |-> c, current_load |-> 0,
        status |-> "READY_TO_LOAD"]>> : c \in 1..maxcap}

(* -------------------- controller.py: _log_shipment --------------------- *)
\* ok = FALSE: the insert raised, was rolled back and only printed.
log_shipment(logs, tracking_id, size, status, bin_id, truck_id, ok) ==
    IF ok THEN logs + 1 ELSE logs

\* failed more of the calls of one operation raise
AuditFailures(failed) ==
    /\ audit_failures + failed <= MaxAuditFail
    /\ audit_failures' = audit_failures + failed

(* ---------------- controller.py: _update_db_assignment ----------------- *)
update_bin_row(rows, bin_obj) ==
    [i \in 1..Len(rows) |->
        IF rows[i].bin_id = bin_obj.bin_id
        THEN [rows[i] EXCEPT !.current_occupancy = bin_obj.occupancy]
        ELSE rows[i]]

upsert_keep_truck(rows, package, bin_id) ==
    IF \E i \in 1..Len(rows) : rows[i].tracking_id = package.tracking_id
    THEN [i \in 1..Len(rows) |->
            IF rows[i].tracking_id = package.tracking_id
            THEN [rows[i] EXCEPT !.current_bin_id = bin_id]
            ELSE rows[i]]
    ELSE Append(rows, [tracking_id |-> package.tracking_id,
                       package_size |-> package.size,
                       destination_zip |-> package.destination,
                       current_bin_id |-> bin_id,
                       current_truck_id |-> NULL])

upsert_package(rows, package, bin_id) ==
    IF \E i \in 1..Len(rows) : rows[i].tracking_id = package.tracking_id
    THEN [i \in 1..Len(rows) |->
            IF rows[i].tracking_id = package.tracking_id
            THEN [rows[i] EXCEPT !.current_bin_id = bin_id,
                                 !.current_truck_id = NULL]
            ELSE rows[i]]
    ELSE Append(rows, [tracking_id |-> package.tracking_id,
                       package_size |-> package.size,
                       destination_zip |-> package.destination,
                       current_bin_id |-> bin_id,
                       current_truck_id |-> NULL])

(* ------------------------ queue operations ----------------------------- *)
\* Enqueue at the wrong end.
enqueue_head(queue, package) == <<package>> \o queue

\* ingest_package: deque.append
enqueue(queue, package) == Append(queue, package)

\* A requeue at the tail.
requeue_tail(queue, package) == Append(queue, package)

\* persistence-failure branch: deque.appendleft
requeue(queue, package) == <<package>> \o queue

\* A no-fit branch that puts the package back at the front / at the tail.
after_no_fit_requeue(queue, package) == <<package>> \o queue

after_no_fit_append(queue, package) == Append(queue, package)

\* no-fit branch: the popped package is only reported, the queue is left alone
after_no_fit(queue, package) == queue

\* An except branch that forgets to free the space.
rollback_keep(b, amount) == b

\* rollback of the allocation in the except branch
rollback_allocation(b, amount) == free_space(b, amount)

(* ------------------------- operation reports --------------------------- *)
PyNone == "None"

\* What process_next_package hands back to its caller: every path ends in a
\* bare return or falls off the end of the function.
process_return(outcome) == PyNone

\* Audit outcome of an operation that made `calls` _log_shipment calls of
\* which `failed` raised.
Audit(calls, failed) ==
    IF calls = 0 THEN "none" ELSE IF failed > 0 THEN "failed" ELSE "ok"

Report(op, outcome, seq, audit) ==
    [op |-> op, outcome |-> outcome, seq |-> seq, audit |-> audit,
     ret |-> IF op = "process" THEN process_return(outcome) ELSE PyNone]

(* ------------------------------ Init ----------------------------------- *)
NoProbe == [fn |-> "none"]

\* A thread outside process_next_package: no locals.
NotCalling ==
    [pc |-> "idle", package |-> NULL, best |-> NULL, took |-> FALSE]

NoCallers == [t \in 1..NumCallers |-> NotCalling]

Init ==
    /\ db_bins \in SeededBinRows(MainBins, MainCap)
    /\ db_trucks \in TruckRows(MainCap)
    /\ db_packages = <<>>
    /\ shipment_logs = 0
    /\ audit_failures = 0
    /\ bin_inventory = load_and_sort_bins(db_bins)
    /\ conveyor_queue = <<>>
    /\ loading_stack = <<>>
    /\ ingested = 0
    /\ handed = <<>>
    /\ retry = NULL
    /\ committed = {}
    /\ last = Report("init", "init", NULL, "none")
    /\ probe = NoProbe
    /\ callers = NoCallers

(* ------------------------- ingest_package ------------------------------ *)
\* An ingest that audits first and lets the audit failure escape.
ingest_package_log_first(tracking_id, size, destination, log_ok) ==
    /\ ingested < MaxIngest
    /\ LET package == [tracking_id |-> tracking_id, size |-> size,
                       destination |-> destination, seq |-> ingested + 1]
       IN /\ conveyor_queue' = IF log_ok THEN enqueue(conveyor_queue, package)
                                        ELSE conveyor_queue
          /\ shipment_logs' = log_shipment(shipment_logs, tracking_id, size,
                                           "INGESTED", NULL, NULL, log_ok)
          /\ AuditFailures(IF log_ok THEN 0 ELSE 1)
          /\ ingested' = ingested + 1
          /\ last' = Report("ingest", "queued", package.seq,
                           Audit(1, IF log_ok THEN 0 ELSE 1))
    /\ UNCHANGED <<bin_inventory, loading_stack, db_bins, db_packages,
                   db_trucks, handed, retry, committed, probe, callers>>

ingest_package(tracking_id, size, destination, log_ok) ==
    /\ ingested < MaxIngest
    /\ LET package == [tracking_id |-> tracking_id, size |-> size,
                       destination |-> destination, seq |-> ingested + 1]
       IN /\ conveyor_queue' = enqueue(conveyor_queue, package)
          /\ shipment_logs' = log_shipment(shipment_logs, tracking_id, size,
                                           "INGESTED", NULL, NULL, log_ok)
          /\ AuditFailures(IF log_ok THEN 0 ELSE 1)
          /\ ingested' = ingested + 1
          /\ last' = Report("ingest", "queued", package.seq,
                           Audit(1, IF log_ok THEN 0 ELSE 1))
    /\ UNCHANGED <<bin_inventory, loading_stack, db_bins, db_packages,
                   db_trucks, handed, retry, committed, probe, callers>>

(* ----------------------- process_next_package -------------------------- *)
Handed(package) ==
    IF \E i \in 1..Len(handed) : handed[i] = package.seq
    THEN handed ELSE Append(handed, package.seq)

\* A call without the emptiness guard: popleft raises on the empty deque.
process_empty_raises ==
    /\ conveyor_queue = <<>>
    /\ last' = Report("process", "error", NULL, "none")
    /\ UNCHANGED <<bin_inventory, conveyor_queue, loading_stack, db_bins,
                   db_packages, db_trucks, shipment_logs, audit_failures,
                   ingested, handed, retry, committed, probe, callers>>

process_empty ==
    /\ conveyor_queue = <<>>
    /\ last' = Report("process", "empty", NULL, "none")
    /\ UNCHANGED <<bin_inventory, conveyor_queue, loading_stack, db_bins,
                   db_packages, db_trucks, shipment_logs, audit_failures, ingested, handed,
                   retry, committed, probe, callers>>

process_no_fit ==
    /\ conveyor_queue # <<>>
    /\ LET package == Head(conveyor_queue)
           popped == Tail(conveyor_queue)
       IN /\ find_best_fit_bin(bin_inventory, package.size) = NULL
          /\ conveyor_queue' = after_no_fit(popped, package)
          /\ handed' = Handed(package)
          /\ retry' = IF retry = package.seq THEN NULL ELSE retry
          /\ last' = Report("process", "no_fit", package.seq, "none")
    /\ UNCHANGED <<bin_inventory, loading_stack, db_bins, db_packages,
                   db_trucks, shipment_logs, audit_failures, ingested,
                   committed, probe, callers>>

process_assigned(log_ok) ==
    /\ conveyor_queue # <<>>
    /\ LET package == Head(conveyor_queue)
           popped == Tail(conveyor_queue)
           best == find_best_fit_bin(bin_inventory, package.size)
       IN /\ best # NULL
          /\ LET occupied == [bin_inventory EXCEPT
                                ![best] = occupy_space(@, package.size)]
             IN /\ bin_inventory' = occupied
                /\ db_bins' = update_bin_row(db_bins, occupied[best])
                /\ db_packages' = upsert_package(db_packages, package,
                                                 occupied[best].bin_id)
                /\ shipment_logs' = log_shipment(shipment_logs,
                       package.tracking_id, package.size, "BIN_ASSIGNED",
                       occupied[best].bin_id, NULL, log_ok)
                /\ AuditFailures(IF log_ok THEN 0 ELSE 1)
          /\ conveyor_queue' = popped
          /\ handed' = Handed(package)
          /\ retry' = IF retry = package.seq THEN NULL ELSE retry
          /\ last' = Report("process", "assigned", package.seq,
                           Audit(1, IF log_ok THEN 0 ELSE 1))
    /\ UNCHANGED <<loading_stack, db_trucks, ingested, committed, probe, callers>>

\* _update_db_assignment raised: its session was rolled back, the except
\* branch frees the space and puts the package back.
process_persist_failed ==
    /\ conveyor_queue # <<>>
    /\ LET package == Head(conveyor_queue)
           popped == Tail(conveyor_queue)
           best == find_best_fit_bin(bin_inventory, package.size)
       IN /\ best # NULL
          /\ LET occupied == [bin_inventory EXCEPT
                                ![best] = occupy_space(@, package.size)]
             IN bin_inventory' = [occupied EXCEPT
                    ![best] = rollback_allocation(@, package.size)]
          /\ conveyor_queue' = requeue(popped, package)
          /\ handed' = Handed(package)
          /\ retry' = package.seq
          /\ last' = Report("process", "persist_failed", package.seq, "none")
    /\ UNCHANGED <<loading_stack, db_bins, db_packages, db_trucks,
                   shipment_logs, audit_failures, ingested, committed, probe, callers>>

process_next_package ==
    \/ process_empty
    \/ process_no_fit
    \/ \E log_ok \in BOOLEAN : process_assigned(log_ok)
    \/ process_persist_failed

(* ------------------------- prepare_shipment ---------------------------- *)
truck_rows(truck_id) == {i \in 1..Len(db_trucks) : db_trucks[i].truck_id = truck_id}

\* Step 2-3: packages resident in a bin with the requested destination.
RECURSIVE candidate_packages(_, _)
candidate_packages(rows, zip_code_filter) ==
    IF rows = <<>> THEN <<>>
    ELSE LET p == Head(rows)
             rest == candidate_packages(Tail(rows), zip_code_filter)
         IN IF p.current_bin_id # NULL /\ p.destination_zip = zip_code_filter
            THEN <<[tracking_id |-> p.tracking_id, size |-> p.package_size,
                    destination |-> p.destination_zip]>> \o rest
            ELSE rest

\* A push at the bottom of the stack.
push_front(stack, load, k) ==
    [i \in 1..k |-> load[i].tracking_id] \o stack

\* The loop body's stack push, for the first k packages of the load.
push_loaded(stack, load, k) ==
    stack \o [i \in 1..k |-> load[i].tracking_id]

\* The loop body's package relocation, for the whole load.
relocate(rows, load, truck_id) ==
    [i \in 1..Len(rows) |->
        IF \E j \in 1..Len(load) : load[j].tracking_id = rows[i].tracking_id
        THEN [rows[i] EXCEPT !.current_bin_id = NULL,
                             !.current_truck_id = truck_id]
        ELSE rows[i]]

\* The loop body's audit call, for the first k packages of the load.
RECURSIVE log_loaded(_, _, _, _, _)
log_loaded(logs, load, k, truck_id, ok_set) ==
    IF k = 0 THEN logs
    ELSE log_shipment(log_loaded(logs, load, k - 1, truck_id, ok_set),
                      load[k].tracking_id, load[k].size, "TRUCK_LOADED",
                      NULL, truck_id, k \in ok_set)

\* A rollback that keeps what the session had flushed.
rollback_nothing(stored, flushed) == flushed

\* session.rollback(): the rows are as stored before the session began.
rollback_session(stored, flushed) == stored

\* .one() found no truck row (or an early query raised): rollback, nothing staged.
prepare_truck_missing(truck_id, zip_code_filter) ==
    /\ truck_rows(truck_id) = {}
    /\ last' = Report("prepare", "failed", NULL, "none")
    /\ UNCHANGED <<bin_inventory, conveyor_queue, loading_stack, db_bins,
                   db_packages, db_trucks, shipment_logs, audit_failures, ingested, handed,
                   retry, committed, probe, callers>>

prepare_no_candidates(truck_id, zip_code_filter) ==
    /\ truck_rows(truck_id) # {}
    /\ candidate_packages(db_packages, zip_code_filter) = <<>>
    /\ last' = Report("prepare", "no_candidates", NULL, "none")
    /\ UNCHANGED <<bin_inventory, conveyor_queue, loading_stack, db_bins,
                   db_packages, db_trucks, shipment_logs, audit_failures, ingested, handed,
                   retry, committed, probe, callers>>

prepare_empty_load(truck_id, zip_code_filter) ==
    /\ truck_rows(truck_id) # {}
    /\ LET t == CHOOSE i \in truck_rows(truck_id) : TRUE
           cands == candidate_packages(db_packages, zip_code_filter)
       IN /\ cands # <<>>
          /\ find_optimal_shipment(cands, db_trucks[t].max_capacity) = <<>>
    /\ last' = Report("prepare", "empty_load", NULL, "none")
    /\ UNCHANGED <<bin_inventory, conveyor_queue, loading_stack, db_bins,
                   db_packages, db_trucks, shipment_logs, audit_failures, ingested, handed,
                   retry, committed, probe, callers>>

\* session.commit() succeeded.
prepare_loaded(truck_id, zip_code_filter) ==
    /\ truck_rows(truck_id) # {}
    /\ LET t == CHOOSE i \in truck_rows(truck_id) : TRUE
           cands == candidate_packages(db_packages, zip_code_filter)
           optimal_load == find_optimal_shipment(cands, db_trucks[t].max_capacity)
           n == Len(optimal_load)
       IN /\ optimal_load # <<>>
          /\ Len(loading_stack) + n <= MaxLedger
          /\ db_trucks' = [db_trucks EXCEPT
                 ![t].current_load = SumSizes(optimal_load),
                 ![t].status = "LOADING_IN_PROGRESS"]
          /\ loading_stack' = push_loaded(loading_stack, optimal_load, n)
          /\ db_packages' = relocate(db_packages, optimal_load, truck_id)
          /\ \E ok_set \in SUBSET (1..n) :
                /\ shipment_logs' = log_loaded(shipment_logs, optimal_load, n,
                                               truck_id, ok_set)
                /\ AuditFailures(n - Cardinality(ok_set))
                /\ last' = Report("prepare", "loaded", NULL,
                                  Audit(n, n - Cardinality(ok_set)))
          /\ committed' = committed \cup
                 {optimal_load[i].tracking_id : i \in 1..n}
    /\ UNCHANGED <<bin_inventory, conveyor_queue, db_bins, ingested, handed,
                   retry, probe, callers>>

\* An exception inside the loop or at commit: session.rollback() undoes the
\* truck and package rows; fail_at = k <= n is the k-th package query raising
\* (k pushes, k-1 audit calls made), fail_at = n+1 is session.commit() raising.
prepare_failed(truck_id, zip_code_filter) ==
    /\ truck_rows(truck_id) # {}
    /\ LET t == CHOOSE i \in truck_rows(truck_id) : TRUE
           cands == candidate_packages(db_packages, zip_code_filter)
           optimal_load == find_optimal_shipment(cands, db_trucks[t].max_capacity)
           n == Len(optimal_load)
       IN /\ optimal_load # <<>>
          /\ Len(loading_stack) + n <= MaxLedger
          /\ \E fail_at \in 1..(n + 1) :
                LET pushed == IF fail_at <= n THEN fail_at ELSE n
                    logged == fail_at - 1
                    staged == SubSeq(optimal_load, 1, logged)
                IN /\ loading_stack' = push_loaded(loading_stack, optimal_load, pushed)
                   /\ db_trucks' = rollback_session(db_trucks,
                          [db_trucks EXCEPT
                             ![t].current_load = SumSizes(optimal_load),
                             ![t].status = "LOADING_IN_PROGRESS"])
                   /\ db_packages' = rollback_session(db_packages,
                          relocate(db_packages, staged, truck_id))
                   /\ \E ok_set \in SUBSET (1..logged) :
                         /\ shipment_logs' = log_loaded(shipment_logs,
                                optimal_load, logged, truck_id, ok_set)
                         /\ AuditFailures(logged - Cardinality(ok_set))
                         /\ last' = Report("prepare", "failed", NULL,
                                Audit(logged, logged - Cardinality(ok_set)))
    /\ UNCHANGED <<bin_inventory, conveyor_queue, db_bins, ingested, handed,
                   retry, committed, probe, callers>>

prepare_shipment(truck_id, zip_code_filter) ==
    \/ prepare_truck_missing(truck_id, zip_code_filter)
    \/ prepare_no_candidates(truck_id, zip_code_filter)
    \/ prepare_empty_load(truck_id, zip_code_filter)
    \/ prepare_loaded(truck_id, zip_code_filter)
    \/ prepare_failed(truck_id, zip_code_filter)

(* --------------------------- specification ----------------------------- *)
Ingest ==
    \E tracking_id \in 1..NumIds, size \in 1..MainSize,
       destination \in 1..NumZips, log_ok \in BOOLEAN :
        ingest_package(tracking_id, size, destination, log_ok)

Process == process_next_package

Prepare ==
    \E truck_id \in 1..2, zip_code_filter \in 1..(NumZips + 1) :
        prepare_shipment(truck_id, zip_code_filter)

Next == Ingest \/ Process \/ Prepare

Spec == Init /\ [][Next]_vars

\* process_next_package is called again and again, and _update_db_assignment
\* does not raise for ever: a call that gets past persistence (or finds no
\* bin) eventually happens while one is possible.
ProcessCompletes ==
    \/ process_no_fit
    \/ \E log_ok \in BOOLEAN : process_assigned(log_ok)

\* The queue operations on their own: prepare_shipment neither reads nor
\* writes conveyor_queue or bin_inventory.
NextLive == Ingest \/ Process

SpecLive == Init /\ [][NextLive]_vars /\ WF_vars(ProcessCompletes)

(* ------------------- app.py: POST /api/ingest -------------------------- *)
\* ingest_and_assign: wm.ingest_package(new_package) and then
\* wm.process_next_package(), which pops whatever is at the head of the queue
\* holding the new package.  The report's seq is the item that was processed.
ingest_and_assign_no_fit(tracking_id, size, destination, log_ok) ==
    /\ ingested < MaxIngest
    /\ LET new_package == [tracking_id |-> tracking_id, size |-> size,
                           destination |-> destination, seq |-> ingested + 1]
           queued == enqueue(conveyor_queue, new_package)
           package == Head(queued)
           popped == Tail(queued)
       IN /\ find_best_fit_bin(bin_inventory, package.size) = NULL
          /\ conveyor_queue' = after_no_fit(popped, package)
          /\ shipment_logs' = log_shipment(shipment_logs, tracking_id, size,
                                           "INGESTED", NULL, NULL, log_ok)
          /\ AuditFailures(IF log_ok THEN 0 ELSE 1)
          /\ ingested' = ingested + 1
          /\ handed' = Handed(package)
          /\ retry' = IF retry = package.seq THEN NULL ELSE retry
          /\ last' = Report("ingest_and_assign", "no_fit", package.seq,
                           Audit(1, IF log_ok THEN 0 ELSE 1))
    /\ UNCHANGED <<bin_inventory, loading_stack, db_bins, db_packages,
                   db_trucks, committed, probe, callers>>

ingest_and_assign_assigned(tracking_id, size, destination, log_ok, assign_log_ok) ==
    /\ ingested < MaxIngest
    /\ LET new_package == [tracking_id |-> tracking_id, size |-> size,
                           destination |-> destination, seq |-> ingested + 1]
           queued == enqueue(conveyor_queue, new_package)
           package == Head(queued)
           popped == Tail(queued)
           best == find_best_fit_bin(bin_inventory, package.size)
           failed == (IF log_ok THEN 0 ELSE 1) + (IF assign_log_ok THEN 0 ELSE 1)
       IN /\ best # NULL
          /\ LET occupied == [bin_inventory EXCEPT
                                ![best] = occupy_space(@, package.size)]
             IN /\ bin_inventory' = occupied
                /\ db_bins' = update_bin_row(db_bins, occupied[best])
                /\ db_packages' = upsert_package(db_packages, package,
                                                 occupied[best].bin_id)
                /\ shipment_logs' = log_shipment(
                       log_shipment(shipment_logs, tracking_id, size,
                                    "INGESTED", NULL, NULL, log_ok),
                       package.tracking_id, package.size, "BIN_ASSIGNED",
                       occupied[best].bin_id, NULL, assign_log_ok)
          /\ AuditFailures(failed)
          /\ conveyor_queue' = popped
          /\ ingested' = ingested + 1
          /\ handed' = Handed(package)
          /\ retry' = IF retry = package.seq THEN NULL ELSE retry
          /\ last' = Report("ingest_and_assign", "assigned", package.seq,
                           Audit(2, failed))
    /\ UNCHANGED <<loading_stack, db_trucks, committed, probe, callers>>

ingest_and_assign_persist_failed(tracking_id, size, destination, log_ok) ==
    /\ ingested < MaxIngest
    /\ LET new_package == [tracking_id |-> tracking_id, size |-> size,
                           destination |-> destination, seq |-> ingested + 1]
           queued == enqueue(conveyor_queue, new_package)
           package == Head(queued)
           popped == Tail(queued)
           best == find_best_fit_bin(bin_inventory, package.size)
       IN /\ best # NULL
          /\ LET occupied == [bin_inventory EXCEPT
                                ![best] = occupy_space(@, package.size)]
             IN bin_inventory' = [occupied EXCEPT
                    ![best] = rollback_allocation(@, package.size)]
          /\ conveyor_queue' = requeue(popped, package)
          /\ shipment_logs' = log_shipment(shipment_logs, tracking_id, size,
                                           "INGESTED", NULL, NULL, log_ok)
          /\ AuditFailures(IF log_ok THEN 0 ELSE 1)
          /\ ingested' = ingested + 1
          /\ handed' = Handed(package)
          /\ retry' = package.seq
          /\ last' = Report("ingest_and_assign", "persist_failed", package.seq,
                           Audit(1, IF log_ok THEN 0 ELSE 1))
    /\ UNCHANGED <<loading_stack, db_bins, db_packages, db_trucks,
                   committed, probe, callers>>

ingest_and_assign(tracking_id, size, destination, log_ok) ==
    \/ ingest_and_assign_no_fit(tracking_id, size, destination, log_ok)
    \/ \E assign_log_ok \in BOOLEAN :
          ingest_and_assign_assigned(tracking_id, size, destination, log_ok,
                                     assign_log_ok)
    \/ ingest_and_assign_persist_failed(tracking_id, size, destination, log_ok)

\* The routes of app.py that change state.
IngestAndAssign ==
    \E tracking_id \in 1..NumIds, size \in 1..MainSize,
       destination \in 1..NumZips, log_ok \in BOOLEAN :
        ingest_and_assign(tracking_id, size, destination, log_ok)

NextApi == IngestAndAssign \/ Prepare

SpecApi == Init /\ [][NextApi]_vars

(* ------- process_next_package called from several threads -------------- *)
\* app.py serves requests from threads that share the one LogiMaster; no lock
\* guards process_next_package.  Each thread runs the method in steps: the
\* popleft, the find_best_fit_bin call, the check of occupy_space, its write,
\* and the persistence round trip with what follows it.  A thread's locals
\* are package, best (index of best_bin) and took (what occupy_space returned).
caller_empty(t) ==
    /\ callers[t].pc = "idle"
    /\ conveyor_queue = <<>>
    /\ last' = Report("process", "empty", NULL, "none")
    /\ UNCHANGED <<bin_inventory, conveyor_queue, loading_stack, db_bins,
                   db_packages, db_trucks, shipment_logs, audit_failures,
                   ingested, handed, retry, committed, probe, callers>>

caller_popleft(t) ==
    /\ callers[t].pc = "idle"
    /\ conveyor_queue # <<>>
    /\ callers' = [callers EXCEPT ![t] =
                      [NotCalling EXCEPT !.pc = "find_best_fit_bin",
                                         !.package = Head(conveyor_queue)]]
    /\ conveyor_queue' = Tail(conveyor_queue)
    /\ handed' = Handed(Head(conveyor_queue))
    /\ UNCHANGED <<bin_inventory, loading_stack, db_bins, db_packages,
                   db_trucks, shipment_logs, audit_failures, ingested, retry,
                   committed, last, probe>>

caller_no_fit(t) ==
    /\ callers[t].pc = "find_best_fit_bin"
    /\ LET package == callers[t].package
       IN /\ find_best_fit_bin(bin_inventory, package.size) = NULL
          /\ retry' = IF retry = package.seq THEN NULL ELSE retry
          /\ last' = Report("process", "no_fit", package.seq, "none")
    /\ callers' = [callers EXCEPT ![t] = NotCalling]
    /\ UNCHANGED <<bin_inventory, conveyor_queue, loading_stack, db_bins,
                   db_packages, db_trucks, shipment_logs, audit_failures,
                   ingested, handed, committed, probe>>

caller_best_bin(t) ==
    /\ callers[t].pc = "find_best_fit_bin"
    /\ LET best == find_best_fit_bin(bin_inventory, callers[t].package.size)
       IN /\ best # NULL
          /\ callers' = [callers EXCEPT ![t].pc = "occupy_space",
                                        ![t].best = best]
    /\ UNCHANGED <<bin_inventory, conveyor_queue, loading_stack, db_bins,
                   db_packages, db_trucks, shipment_logs, audit_failures,
                   ingested, handed, retry, committed, last, probe>>

\* occupy_space: the test of the remaining capacity.  A False result is
\* returned to process_next_package, which does not look at it.
caller_occupy_check(t) ==
    /\ callers[t].pc = "occupy_space"
    /\ callers' = [callers EXCEPT ![t].pc =
           IF get_remaining_capacity(bin_inventory[callers[t].best])
                 >= callers[t].package.size
           THEN "occupancy_write" ELSE "update_db_assignment"]
    /\ UNCHANGED <<bin_inventory, conveyor_queue, loading_stack, db_bins,
                   db_packages, db_trucks, shipment_logs, audit_failures,
                   ingested, handed, retry, committed, last, probe>>

\* occupy_space: self.occupancy += amount, taken as one step.
caller_occupy_write(t) ==
    /\ callers[t].pc = "occupancy_write"
    /\ bin_inventory' = [bin_inventory EXCEPT ![callers[t].best].occupancy =
                            @ + callers[t].package.size]
    /\ callers' = [callers EXCEPT ![t].pc = "update_db_assignment",
                                  ![t].took = TRUE]
    /\ UNCHANGED <<conveyor_queue, loading_stack, db_bins, db_packages,
                   db_trucks, shipment_logs, audit_failures, ingested, handed,
                   retry, committed, last, probe>>

\* _update_db_assignment commits, then the audit call.
caller_assigned(t, log_ok) ==
    /\ callers[t].pc = "update_db_assignment"
    /\ LET package == callers[t].package
           best_bin == bin_inventory[callers[t].best]
       IN /\ db_bins' = update_bin_row(db_bins, best_bin)
          /\ db_packages' = upsert_package(db_packages, package, best_bin.bin_id)
          /\ shipment_logs' = log_shipment(shipment_logs, package.tracking_id,
                 package.size, "BIN_ASSIGNED", best_bin.bin_id, NULL, log_ok)
          /\ AuditFailures(IF log_ok THEN 0 ELSE 1)
          /\ retry' = IF retry = package.seq THEN NULL ELSE retry
          /\ last' = Report("process", "assigned", package.seq,
                           Audit(1, IF log_ok THEN 0 ELSE 1))
    /\ callers' = [callers EXCEPT ![t] = NotCalling]
    /\ UNCHANGED <<bin_inventory, conveyor_queue, loading_stack, db_trucks,
                   ingested, handed, committed, probe>>

\* _update_db_assignment raises: the except branch frees the amount and puts
\* the package back at the front.
caller_persist_failed(t) ==
    /\ callers[t].pc = "update_db_assignment"
    /\ LET package == callers[t].package
       IN /\ bin_inventory' = [bin_inventory EXCEPT ![callers[t].best] =
                                  rollback_allocation(@, package.size)]
          /\ conveyor_queue' = requeue(conveyor_queue, package)
          /\ retry' = package.seq
          /\ last' = Report("process", "persist_failed", package.seq, "none")
    /\ callers' = [callers EXCEPT ![t] = NotCalling]
    /\ UNCHANGED <<loading_stack, db_bins, db_packages, db_trucks,
                   shipment_logs, audit_failures, ingested, handed, committed,
                   probe>>

caller_step(t) ==
    \/ caller_empty(t)
    \/ caller_popleft(t)
    \/ caller_no_fit(t)
    \/ caller_best_bin(t)
    \/ caller_occupy_check(t)
    \/ caller_occupy_write(t)
    \/ \E log_ok \in BOOLEAN : caller_assigned(t, log_ok)
    \/ caller_persist_failed(t)

Call == \E t \in 1..NumCallers : caller_step(t)

NextConc == Ingest \/ Call

\* process_next_package never reads delivery_trucks: one truck row is enough.
InitConc == Init /\ db_trucks \in TruckRows(1)

SpecConc == InitConc /\ [][NextConc]_vars

(* ------------- harness: find_best_fit_bin on loaded catalogs ----------- *)
Idle ==
    /\ conveyor_queue = <<>>
    /\ loading_stack = <<>>
    /\ db_packages = <<>>
    /\ db_trucks = <<>>
    /\ shipment_logs = 0
    /\ audit_failures = 0
    /\ ingested = 0
    /\ handed = <<>>
    /\ retry = NULL
    /\ committed = {}
    /\ last = Report("init", "init", NULL, "none")
    /\ callers = NoCallers

InitSel ==
    /\ db_bins \in UNION {BinRows(n, MaxCap) : n \in 0..SelBins}
    /\ bin_inventory = load_and_sort_bins(db_bins)
    /\ probe = NoProbe
    /\ Idle

SelectProbe ==
    /\ probe = NoProbe
    /\ \E package_size \in 1..MaxSize :
          probe' = [fn |-> "select", size |-> package_size,
                    result |-> find_best_fit_bin(bin_inventory, package_size)]
    /\ UNCHANGED <<bin_inventory, conveyor_queue, loading_stack, db_bins,
                   db_packages, db_trucks, shipment_logs, audit_failures,
                   ingested, handed, retry, committed, last, callers>>

NextSel == SelectProbe

SpecSel == InitSel /\ [][NextSel]_vars

(* ------------- harness: find_optimal_shipment on candidates ------------ *)
Candidates ==
    {[i \in 1..Len(sizes) |-> [tracking_id |-> i, size |-> sizes[i],
                               destination |-> 1]] :
        sizes \in SeqsUpTo(1..MaxSize, MaxCand)}

InitOpt ==
    /\ db_bins = <<>>
    /\ bin_inventory = <<>>
    /\ probe \in {[fn |-> "candidates", packages |-> ps, target |-> c] :
                     ps \in Candidates, c \in 1..MaxCeil}
    /\ Idle

OptimizeProbe ==
    /\ probe.fn = "candidates"
    /\ probe' = [fn |-> "optimize", packages |-> probe.packages,
                 target |-> probe.target,
                 search |-> optimal_search(probe.packages, probe.target),
                 result |-> find_optimal_shipment(probe.packages, probe.target)]
    /\ UNCHANGED <<bin_inventory, conveyor_queue, loading_stack, db_bins,
                   db_packages, db_trucks, shipment_logs, audit_failures,
                   ingested, handed, retry, committed, last, callers>>

NextOpt == OptimizeProbe

SpecOpt == InitOpt /\ [][NextOpt]_vars

(* ============================== claims ================================= *)

C2_OccupancyWithinCapacity ==
    \A i \in 1..Len(bin_inventory) :
        /\ 0 <= bin_inventory[i].occupancy
        /\ bin_inventory[i].occupancy <= bin_inventory[i].capacity

\* C2 witness: a unit is full, a shipment has been committed and the last
\* process_next_package rolled back after a persistence failure.
C2_Witness ==
    /\ last.op = "process" /\ last.outcome = "persist_failed"
    /\ committed # {}
    /\ \E i \in 1..Len(bin_inventory) :
          bin_inventory[i].occupancy = bin_inventory[i].capacity

\* C3: when process_next_package pops B, the selector finds a unit and
\* persistence fails, the queue afterwards is B followed by the items that
\* were behind B, and every unit's occupancy is what it was before.
C3_PersistFailureRestores ==
    [][(last'.op = "process" /\ last'.outcome = "persist_failed") =>
          /\ conveyor_queue # <<>>
          /\ Head(conveyor_queue).seq = last'.seq
          /\ conveyor_queue' = <<Head(conveyor_queue)>> \o Tail(conveyor_queue)
          /\ bin_inventory' = bin_inventory]_vars

\* C3 witness: B failed with an item behind it and an earlier item stored.
C3_Witness ==
    /\ last.op = "process" /\ last.outcome = "persist_failed"
    /\ Len(conveyor_queue) >= 2
    /\ Head(conveyor_queue).seq = last.seq
    /\ \E i \in 1..Len(bin_inventory) : bin_inventory[i].occupancy > 0

\* C4: when the selector returns no-fit for the popped item, the queue
\* afterwards is the former queue without its head, and no occupancy, no
\* persisted item location and not the ledger are changed.
C4_NoFitDrops ==
    [][(last'.op = "process" /\ last'.outcome = "no_fit") =>
          /\ conveyor_queue # <<>>
          /\ Head(conveyor_queue).seq = last'.seq
          /\ conveyor_queue' = Tail(conveyor_queue)
          /\ bin_inventory' = bin_inventory
          /\ db_bins' = db_bins
          /\ db_packages' = db_packages
          /\ db_trucks' = db_trucks
          /\ loading_stack' = loading_stack]_vars

\* C4 witness: an item was rejected while another unit still had room for
\* it, and items remain queued behind it.
C4_Witness ==
    /\ last.op = "process" /\ last.outcome = "no_fit"
    /\ conveyor_queue # <<>>
    /\ \E i \in 1..Len(bin_inventory) :
          bin_inventory[i].occupancy < bin_inventory[i].capacity

\* C5 (as stated): an item rejected for lack of space is reinserted at the
\* front of the ingestion queue.
C5_NoFitRequeuedAtFront ==
    (last.op = "process" /\ last.outcome = "no_fit") =>
        /\ conveyor_queue # <<>>
        /\ Head(conveyor_queue).seq = last.seq

\* C5 (amended): an item rejected for lack of space is not reinserted; after
\* the call it is nowhere in the ingestion queue.
C5_NoFitNotRequeued ==
    (last.op = "process" /\ last.outcome = "no_fit") =>
        \A i \in 1..Len(conveyor_queue) : conveyor_queue[i].seq # last.seq

\* C5 witness: after a rejection the queue head is the next item ingested.
C5_Witness ==
    /\ last.op = "process" /\ last.outcome = "no_fit"
    /\ conveyor_queue # <<>>
    /\ Head(conveyor_queue).seq = last.seq + 1

\* C6: the queue is FIFO: items are first handed to the selector in
\* ingestion order, queued items stay in ingestion order, and an item whose
\* persistence failed is at the head, to be handed over again before any
\* item ingested after it.
C6_Fifo ==
    /\ handed = [i \in 1..Len(handed) |-> i]
    /\ \A i, j \in 1..Len(conveyor_queue) :
          i < j => conveyor_queue[i].seq < conveyor_queue[j].seq
    /\ retry # NULL =>
          /\ conveyor_queue # <<>>
          /\ Head(conveyor_queue).seq = retry

\* C6 witness: three items ingested, two handed over, the second one waits
\* for its retry in front of the third.
C6_Witness ==
    /\ ingested = 3
    /\ handed = <<1, 2>>
    /\ retry = 2
    /\ Len(conveyor_queue) = 2

\* C7: for positive sizes and a positive ceiling find_optimal_shipment
\* returns candidates, each at most once, whose total is <= the ceiling and
\* is not exceeded by the total of any subset of the candidates that is
\* <= the ceiling; the result is empty exactly when every candidate alone
\* exceeds the ceiling.
C7_OptimalSubset ==
    probe.fn = "optimize" =>
        LET ps == probe.packages
            n == Len(ps)
            load == probe.result
            total == SumSizes(load)
            chosen(mask) ==
                SumSizes([i \in 1..n |->
                            [size |-> IF mask[i] THEN ps[i].size ELSE 0]])
        IN /\ \A k \in 1..Len(load) : \E i \in 1..n : load[k] = ps[i]
           /\ \A k, m \in 1..Len(load) :
                 k # m => load[k].tracking_id # load[m].tracking_id
           /\ total <= probe.target
           /\ \A mask \in [1..n -> BOOLEAN] :
                 chosen(mask) <= probe.target => chosen(mask) <= total
           /\ (load = <<>>) <=> (\A i \in 1..n : ps[i].size > probe.target)

\* C7 witness: the largest candidate fits but is left out, because smaller
\* candidates together reach a larger total.
C7_Witness ==
    /\ probe.fn = "optimize"
    /\ Len(probe.result) >= 2
    /\ \E i \in 1..Len(probe.packages) :
          /\ probe.packages[i].size <= probe.target
          /\ \A k \in 1..Len(probe.result) :
                probe.result[k].size < probe.packages[i].size

\* C8: once a call of backtrack sees a running sum equal to the ceiling, the
\* whole search is over: that call is the last backtrack call made.
C8_ExactMatchEndsSearch ==
    probe.fn = "optimize" =>
        LET calls == probe.search.calls IN
        \A i \in 1..Len(calls) :
            calls[i].size = probe.target => i = Len(calls)

\* C9: among the feasible subsets of maximal total the result is the one the
\* depth-first search visits first, also when the maximal total equals the
\* ceiling.
C9_FirstDiscoveredWins ==
    probe.fn = "optimize" =>
        LET calls == probe.search.calls
            best == CHOOSE i \in 1..Len(calls) :
                       /\ \A j \in 1..Len(calls) : calls[j].size <= calls[i].size
                       /\ \A j \in 1..(i - 1) : calls[j].size < calls[i].size
        IN probe.result = calls[best].load

\* C10: the ledger only holds ids whose relocation onto a carrier was
\* committed, and a prepare_shipment whose transaction fails leaves the
\* ledger as it was.
C10_LedgerAfterCommit ==
    /\ [](\A i \in 1..Len(loading_stack) : loading_stack[i] \in committed)
    /\ [][(last'.op = "prepare" /\ last'.outcome = "failed") =>
             loading_stack' = loading_stack]_vars

\* C11: the ledger is append-only: every step leaves the earlier ledger as a
\* prefix of the later one, and a committed shipment appends exactly the ids
\* it relocated onto the carrier, each once, after everything pushed before.
C11_LedgerAppendOnly ==
    [][/\ Len(loading_stack') >= Len(loading_stack)
       /\ SubSeq(loading_stack', 1, Len(loading_stack)) = loading_stack
       /\ (last'.op = "prepare" /\ last'.outcome = "loaded") =>
             LET added == SubSeq(loading_stack', Len(loading_stack) + 1,
                                 Len(loading_stack'))
                 moved == {db_packages[i].tracking_id : i \in
                             {k \in 1..Len(db_packages) :
                                 /\ db_packages[k].current_bin_id # NULL
                                 /\ db_packages'[k].current_truck_id # NULL}}
             IN /\ {added[i] : i \in 1..Len(added)} = moved
                /\ Len(added) = Cardinality(moved)]_vars

\* C11 witness: a committed shipment pushed onto a ledger that already held
\* another id.
C11_Witness ==
    /\ last.op = "prepare" /\ last.outcome = "loaded"
    /\ Len(loading_stack) >= 2
    /\ loading_stack[1] # loading_stack[Len(loading_stack)]

\* C12: process_next_package on an empty queue reports "empty", raises
\* nothing and changes neither the queue, an occupancy, the ledger nor any
\* persisted table.
C12_EmptyQueueNoOp ==
    [][(last'.op = "process" /\ conveyor_queue = <<>>) =>
          /\ last'.outcome = "empty"
          /\ UNCHANGED <<bin_inventory, conveyor_queue, loading_stack,
                         db_bins, db_packages, db_trucks, shipment_logs>>]_vars

\* C12 witness: the queue was drained by earlier work and the call found it
\* empty.
C12_Witness ==
    /\ last.op = "process" /\ last.outcome = "empty"
    /\ ingested > 0
    /\ db_packages # <<>>

\* C13: process_next_package reports a typed outcome: the value returned
\* carries the text ASSIGNED exactly on a successful assignment, and the
\* empty queue gives an explicit value of its own.
C13_TypedOutcome ==
    last.op = "process" =>
        /\ (last.outcome = "assigned") <=> (last.ret = "ASSIGNED")
        /\ (last.outcome = "empty") => (last.ret # PyNone)

\* C14: whenever some unit has capacity >= size and capacity - occupancy >=
\* size, find_best_fit_bin returns a unit of the smallest capacity among
\* those units.
C14_BestFitAmongFree ==
    probe.fn = "select" =>
        LET free == {i \in 1..Len(bin_inventory) :
                        /\ bin_inventory[i].capacity >= probe.size
                        /\ bin_inventory[i].capacity - bin_inventory[i].occupancy
                              >= probe.size}
        IN free # {} =>
              /\ probe.result \in free
              /\ \A j \in free : bin_inventory[probe.result].capacity
                                    <= bin_inventory[j].capacity

\* C15: a committed prepare_shipment reduces the in-memory occupancy of each
\* unit by the sizes of the items it moved from that unit onto the carrier.
C15_LoadedItemsLeaveUnits ==
    [][(last'.op = "prepare" /\ last'.outcome = "loaded") =>
          \A b \in 1..Len(bin_inventory) :
              bin_inventory'[b].occupancy =
                  bin_inventory[b].occupancy -
                  SumSizes([k \in 1..Len(db_packages) |->
                      [size |-> IF /\ db_packages[k].current_bin_id
                                          = bin_inventory[b].bin_id
                                   /\ db_packages'[k].current_truck_id # NULL
                                THEN db_packages[k].package_size
                                ELSE 0]])]_vars

\* C16: a prepare_shipment that fails leaves every persisted item location
\* and every carrier field as it was before the operation.
C16_ShipmentAllOrNothing ==
    [][(last'.op = "prepare" /\ last'.outcome = "failed") =>
          /\ db_packages' = db_packages
          /\ db_trucks' = db_trucks]_vars

\* C16 witness: the operation failed after it had relocated at least one
\* item inside its transaction.
C16_Witness ==
    /\ last.op = "prepare" /\ last.outcome = "failed"
    /\ last.audit # "none"
    /\ loading_stack # <<>>
    /\ \A i \in 1..Len(db_trucks) : db_trucks[i].status = "READY_TO_LOAD"

\* C17: the catalog keeps the same units at the same positions with the same
\* capacities across every step, and is ascending by capacity in every state.
C17_CatalogOrderFixed ==
    /\ [](\A i, j \in 1..Len(bin_inventory) :
             i < j => bin_inventory[i].capacity <= bin_inventory[j].capacity)
    /\ [][/\ Len(bin_inventory') = Len(bin_inventory)
          /\ \A i \in 1..Len(bin_inventory) :
                /\ bin_inventory'[i].bin_id = bin_inventory[i].bin_id
                /\ bin_inventory'[i].capacity = bin_inventory[i].capacity]_vars

\* C17 witness: the source rows were out of order, a smaller unit in front
\* of a larger one is occupied, and a shipment has been committed.
C17_Witness ==
    /\ last.op = "prepare" /\ last.outcome = "loaded"
    /\ db_bins[1].max_capacity > db_bins[2].max_capacity
    /\ bin_inventory[1].occupancy > 0
    /\ bin_inventory[1].capacity < bin_inventory[2].capacity

\* C18: the loaded catalog holds every source row once with its stored
\* occupancy, ascending by capacity, rows of equal capacity in source order;
\* loading again from the unchanged source gives the same catalog.
C18_LoadSortedStable ==
    /\ Len(bin_inventory) = Len(db_bins)
    /\ \A r \in 1..Len(db_bins) :
          Cardinality({i \in 1..Len(bin_inventory) :
              bin_inventory[i] = [bin_id |-> db_bins[r].bin_id,
                                  capacity |-> db_bins[r].max_capacity,
                                  occupancy |-> db_bins[r].current_occupancy]}) = 1
    /\ \A i, j \in 1..Len(bin_inventory) :
          i < j =>
             /\ bin_inventory[i].capacity <= bin_inventory[j].capacity
             /\ bin_inventory[i].capacity = bin_inventory[j].capacity =>
                   bin_inventory[i].bin_id < bin_inventory[j].bin_id
    /\ load_and_sort_bins(db_bins) = bin_inventory

\* C18 witness: a source out of capacity order, with two rows of equal
\* capacity and a stored occupancy above zero.
C18_Witness ==
    /\ Len(db_bins) >= 3
    /\ \E i, j \in 1..Len(db_bins) :
          i < j /\ db_bins[i].max_capacity > db_bins[j].max_capacity
    /\ \E i, j \in 1..Len(db_bins) :
          i < j /\ db_bins[i].max_capacity = db_bins[j].max_capacity
    /\ \E i \in 1..Len(db_bins) : db_bins[i].current_occupancy > 0

\* C19: a failing audit insert does not undo the operation: in
\* ingest_package the item is enqueued at the tail all the same, and after a
\* successful assignment the item is off the queue, persisted in its unit and
\* the unit's occupancy stays increased.
C19_AuditFailureHarmless ==
    [][last'.audit = "failed" =>
          /\ last'.op = "ingest" =>
                /\ Len(conveyor_queue') = Len(conveyor_queue) + 1
                /\ SubSeq(conveyor_queue', 1, Len(conveyor_queue)) = conveyor_queue
                /\ conveyor_queue'[Len(conveyor_queue')].seq = last'.seq
          /\ last'.op = "process" =>
                /\ last'.outcome = "assigned"
                /\ conveyor_queue # <<>>
                /\ conveyor_queue' = Tail(conveyor_queue)
                /\ \E k \in 1..Len(db_packages'), b \in 1..Len(bin_inventory) :
                      /\ db_packages'[k].tracking_id = Head(conveyor_queue).tracking_id
                      /\ db_packages'[k].current_bin_id = bin_inventory[b].bin_id
                      /\ bin_inventory'[b].occupancy =
                            bin_inventory[b].occupancy + Head(conveyor_queue).size]_vars

\* C19 witness: an assignment whose audit insert failed, with items still
\* queued behind it.
C19_Witness ==
    /\ last.op = "process" /\ last.outcome = "assigned"
    /\ last.audit = "failed"
    /\ conveyor_queue # <<>>

\* C20: no persisted item has both a current unit and a current carrier.
C20_OneLocation ==
    \A k \in 1..Len(db_packages) :
        ~(/\ db_packages[k].current_bin_id # NULL
          /\ db_packages[k].current_truck_id # NULL)

\* C20 witness: an item that was committed onto a carrier is persisted in a
\* unit again after a later assignment.
C20_Witness ==
    \E k \in 1..Len(db_packages) :
        /\ db_packages[k].tracking_id \in committed
        /\ db_packages[k].current_bin_id # NULL
        /\ db_packages[k].current_truck_id = NULL

\* Total size of the items persisted as being on the carrier.
RECURSIVE LoadOnTruck(_, _)
LoadOnTruck(rows, truck_id) ==
    IF rows = <<>> THEN 0
    ELSE (IF Head(rows).current_truck_id = truck_id
          THEN Head(rows).package_size ELSE 0) + LoadOnTruck(Tail(rows), truck_id)

\* C24: for every carrier, the total size of the items persisted as being on
\* it is at most the carrier's capacity, and current_load equals that total.
C24_CarrierLoadWithinCapacity ==
    \A t \in 1..Len(db_trucks) :
        /\ LoadOnTruck(db_packages, db_trucks[t].truck_id) <= db_trucks[t].max_capacity
        /\ db_trucks[t].current_load = LoadOnTruck(db_packages, db_trucks[t].truck_id)

\* C23: the ingest-and-assign operation processes the very item it has just
\* ingested.
C23_AssignsTheIngestedItem ==
    last.op = "ingest_and_assign" => last.seq = ingested

InQueue(k) == \E i \in 1..Len(conveyor_queue) : conveyor_queue[i].seq = k

\* C25: a process_next_package call on a non-empty queue removes exactly the
\* head, unless persistence fails, and then the queue is as before; no item
\* behind the head has been handed to the selector; and, with calls repeated
\* and persistence not failing for ever, every queued item eventually leaves
\* the queue.
C25_QueueDrains ==
    /\ [][(last'.op = "process" /\ conveyor_queue # <<>>) =>
             IF last'.outcome = "persist_failed"
             THEN conveyor_queue' = conveyor_queue
             ELSE conveyor_queue' = Tail(conveyor_queue)]_vars
    /\ [](\A i \in 2..Len(conveyor_queue) :
             \A h \in 1..Len(handed) : handed[h] # conveyor_queue[i].seq)
    /\ \A k \in 1..MaxIngest : InQueue(k) ~> ~InQueue(k)

\* C25 witness: the head item has just failed persistence again with every
\* other ingested item waiting behind it, none of them handed over.
C25_Witness ==
    /\ last.op = "process" /\ last.outcome = "persist_failed"
    /\ Len(conveyor_queue) = MaxIngest
    /\ retry = Head(conveyor_queue).seq
    /\ handed = <<Head(conveyor_queue).seq>>

\* C21: with two threads inside process_next_package and no lock, no unit's
\* occupancy exceeds its capacity.
C21_ConcurrentOccupancyWithinCapacity ==
    \A i \in 1..Len(bin_inventory) :
        bin_inventory[i].occupancy <= bin_inventory[i].capacity

\* C22: when occupy_space has rejected the amount, the call does not persist
\* the item as assigned: it reports no assignment and leaves the packages
\* and storage_bins rows alone.
C22_RejectedNotPersisted ==
    [][\A t \in 1..NumCallers :
          (/\ callers[t].pc = "update_db_assignment"
           /\ ~callers[t].took
           /\ callers'[t].pc = "idle")
          => /\ last'.outcome # "assigned"
             /\ db_packages' = db_packages
             /\ db_bins' = db_bins]_vars

====
